---- MODULE Spec2Model ----
(***************************************************************************)
(* A model of testchimp-github-testrunner's core:                          *)
(*   - ExecutionService (src/src/core/execution-service.ts): runExactly    *)
(*     with deflake retries, runWithAIRepair and the step repair loop      *)
(*     repairStepsWithAI / applyRepairActionInContext;                     *)
(*   - ScenarioService (src/src/core/scenario-service.ts): the job queue   *)
(*     and worker pool.                                                    *)
(* One action per suspension point (await) of the code: the action is the  *)
(* continuation that runs, uninterrupted, from the moment the awaited call *)
(* returns or throws up to the next await.                                 *)
(***************************************************************************)
EXTENDS Integers, Sequences, FiniteSets, TLC

(***************************************************************************)
(* Bounds of the model.                                                    *)
(***************************************************************************)
MaxDeflake == 1      \* deflake_run_count ranges over 0..MaxDeflake
MaxInitSteps == 2    \* the segmenter returns 0..MaxInitSteps steps
MaxStepObjects == 4  \* the advisor creates new steps while fewer step objects exist
MaxJobs == 4         \* processScenario is called at most MaxJobs times
MaxWorkers == 2      \* maxWorkers of the pool
MaxTestFiles == 2    \* test files found by an action run
MaxWorkersInput == 2 \* largest value of the max-workers input
MaxRequeues == 2     \* a job's processing throws at most MaxRequeues times
MaxLines == 3        \* lines of a script given to the fallback segmenter
MaxScriptTokens == 4 \* tokens of a script given to addTestChimpComment
MaxAdviceTokens == 2 \* tokens of a repair advice

(***************************************************************************)
(* Program constants.                                                      *)
(***************************************************************************)
maxTries == 3

Absent == "absent"   \* an optional field of a response that is not set
NoNumber == -1       \* an optional numeric field that is not set
Null == <<"null", 0>>

\* the message of the error thrown by executeScriptContent or by browser.close()
\* in attempt att of runExactly: every thrown error carries its own message
ScriptError(att) == <<"script failed in attempt", att>>
CloseError(att) == <<"close failed in attempt", att>>
NoMessage == <<"", 0>>
\* answers of assessRepairConfidence: the parsed JSON of the advisor's answer is
\* returned as it is, whatever its advice
ConfidenceResponses ==
  {[confidence |-> 0, advice |-> "adviceA"], [confidence |-> 4, advice |-> "adviceB"],
   [confidence |-> 3, advice |-> ""]}

VARIABLES
  \* ---- ExecutionService, one executeScript call
  request,          \* [mode, deflake_run_count, hasScript]
  pc,               \* the await the call is suspended at
  attempt,          \* runExactly: loop variable
  lastError,        \* runExactly: lastError
  runExactlyResult, \* runWithAIRepair: runExactlyResult
  updatedSteps,     \* repairStepsWithAI: updatedSteps
  i,                \* repairStepsWithAI: i (0-based cursor)
  step,             \* repairStepsWithAI: the object `step` refers to (its id)
  repairAttempt,    \* repairStepsWithAI: inner loop variable `attempt`
  repairHistory,    \* repairStepsWithAI: repairHistory
  recentRepairs,    \* repairStepsWithAI: recentRepairs
  repairAction,     \* repairStepsWithAI: repairAction being applied
  nextId,           \* identity of the next step object the advisor creates
  confidenceResponse, \* runWithAIRepair: confidenceResponse
  response,         \* the ScriptExecutionResponse executeScript resolves to
  parsedSteps,      \* runWithAIRepair: steps, as parseScriptIntoSteps resolved
  parseOutcome,     \* what the segmentation call of the advisor did
  openSessions,     \* the browsers initializeBrowser returned on which no
                    \* browser.close() call has settled yet
  executedOk,       \* the step objects whose code executeStepCode ran to its end
  repairLog,        \* every successful repair of the run, in the order applied
  scriptLog,        \* the script contents given to executeScriptContent and
                    \* to parseScriptIntoSteps, in the order of the calls
  \* ---- observation of the run (history, not program state)
  scriptRuns,       \* runExactly: calls of executeScriptContent so far
  failure,          \* cursor and sequence at the last step failure
  lastEvent,        \* what the last continuation of the repair loop did
  execCount,        \* per step object: calls of executeStepCode on its code
  advisorCalls,     \* getRepairSuggestion calls for the current failure
  halt,             \* why the outer loop was left early
  \* ---- ScenarioService
  workers,          \* this.workers
  jobQueue,         \* this.jobQueue
  busyWorkers,      \* this.busyWorkers
  running,          \* processScenarioJob calls started and not yet settled
  nextJob,          \* number of processScenario calls so far
  jobComplete,      \* ids carried by emitted jobComplete events
  jobError,         \* ids carried by emitted jobError events
  workersCreated,   \* initializeWorkers: loop variable i
  shutdownPc,       \* shutdown(): not called, awaiting the cleanups, or done
  requeues,         \* per job: times it was put back at the front
  dispatchLog,      \* the jobs in the order of their first processScenarioJob call
  \* ---- the action run (index.ts, run)
  inputs,           \* the inputs of the action and the number of test files found
  runPc,            \* the await run() is suspended at
  fileState,        \* per test file: its execution promise
  fileResult,       \* per test file: what testChimpService.executeScript resolved to
  isSuccessful,     \* per test file: isSuccessful of its execution promise
  repairedFiles,    \* keys of the repairedFiles map
  commentCall,      \* a call of addTestChimpComment and a second call on its result
  writtenTests,     \* the test files handed to fileHandler.writeRepairedTest, each with
                    \* the repair_status of the result it was written for
  outputs,          \* core.setOutput: status and the counts
  failed,           \* the message core.setFailed was called with
  pullRequest       \* what became of the pull request

execVars == <<request, pc, attempt, lastError, runExactlyResult, updatedSteps, i,
              step, repairAttempt, repairHistory, recentRepairs, repairAction,
              nextId, confidenceResponse, response, scriptRuns, failure, lastEvent, execCount,
              advisorCalls, halt, parsedSteps, parseOutcome, openSessions,
              scriptLog, repairLog, executedOk>>
poolVars == <<workers, jobQueue, busyWorkers, running, nextJob, jobComplete, requeues,
              dispatchLog, jobError, workersCreated, shutdownPc>>
actionVars == <<inputs, runPc, fileState, fileResult, isSuccessful, repairedFiles,
                outputs, failed, pullRequest, writtenTests>>
commentVars == <<commentCall>>
vars == <<execVars, poolVars, actionVars, commentVars>>

(***************************************************************************)
(* ScriptExecutionResponse values.                                         *)
(***************************************************************************)
NoResponse ==
  [run_status |-> Absent, repair_status |-> Absent, repair_confidence |-> NoNumber,
   repair_advice |-> Absent, updated_script |-> Absent, num_deflake_runs |-> NoNumber,
   error |-> <<Absent, 0>>]

\* variant of RunExactlySuccess in which the original run is counted as a deflake run
RunExactlySuccessCountingAll(att) ==
  [NoResponse EXCEPT !.run_status = "success", !.num_deflake_runs = att]

\* runExactly, the return inside the try block
RunExactlySuccess(att) ==
  [NoResponse EXCEPT !.run_status = "success", !.num_deflake_runs = att - 1]

\* runExactly, the return after the loop: lastError?.message || '...'
RunExactlyFailed(deflakeRunCount, err) ==
  [NoResponse EXCEPT !.run_status = "failed",
                     !.num_deflake_runs = deflakeRunCount,
                     !.error = IF err # Null /\ err # NoMessage
                                 THEN err ELSE <<"All deflaking attempts failed", 0>>]

\* executeScript, the catch block
ExecuteScriptCaught(msg) ==
  [NoResponse EXCEPT !.run_status = "failed", !.error = msg]

\* runWithAIRepair, the catch block
RepairCaught(runResult, msg) ==
  [NoResponse EXCEPT !.run_status = "failed", !.repair_status = "failed",
                     !.num_deflake_runs = runResult.num_deflake_runs,
                     !.error = msg]

\* variant of RepairedResponse that rounds the confidence down to 0 or 5
RepairedResponseRounded(runResult, allStepsSuccessful, assessed) ==
  [NoResponse EXCEPT !.run_status = "failed",
                     !.repair_status = IF allStepsSuccessful THEN "success" ELSE "partial",
                     !.repair_confidence = IF assessed.confidence < 5 THEN 0 ELSE 5,
                     !.repair_advice = assessed.advice,
                     !.updated_script = "repaired",
                     !.num_deflake_runs = runResult.num_deflake_runs]

\* variant of RepairedResponse that reports the run as passed once repaired
RepairedResponsePassing(runResult, allStepsSuccessful, assessed) ==
  [NoResponse EXCEPT !.run_status = IF allStepsSuccessful THEN "success" ELSE "failed",
                     !.repair_status = IF allStepsSuccessful THEN "success" ELSE "partial",
                     !.repair_confidence = assessed.confidence,
                     !.repair_advice = assessed.advice,
                     !.updated_script = "repaired",
                     !.num_deflake_runs = runResult.num_deflake_runs]

\* runWithAIRepair, the return of the hasSuccessfulRepairs branch
RepairedResponse(runResult, allStepsSuccessful, assessed) ==
  [NoResponse EXCEPT !.run_status = "failed",
                     !.repair_status = IF allStepsSuccessful THEN "success" ELSE "partial",
                     !.repair_confidence = assessed.confidence,
                     !.repair_advice = assessed.advice,
                     !.updated_script = "repaired",
                     !.num_deflake_runs = runResult.num_deflake_runs]

\* runWithAIRepair, the return of the else branch
NotRepairedResponse(runResult) ==
  [NoResponse EXCEPT !.run_status = "failed", !.repair_status = "failed",
                     !.repair_confidence = 0,
                     !.repair_advice = "AI repair could not fix any steps",
                     !.updated_script = "original",
                     !.num_deflake_runs = runResult.num_deflake_runs,
                     !.error = <<"AI repair could not fix any steps", 0>>]

(***************************************************************************)
(* Browser sessions.  A session is open from the moment initializeBrowser  *)
(* returns it until a browser.close() call on it settles, by returning or  *)
(* by throwing ("Browser might already be closed").                        *)
(***************************************************************************)
\* the browser of attempt att of runExactly
RunSession(att) == <<"runExactly", att>>

\* repairBrowser of runWithAIRepair
RepairSession == <<"repair", 0>>

\* const { browser, ... } = await this.initializeBrowser(...)
Opened(sessions, browser) == sessions \cup {browser}

\* variant of Closed in which the call leaves the browser open
ClosedNot(sessions, browser) == sessions

\* await browser.close() settles
Closed(sessions, browser) == sessions \ {browser}

(***************************************************************************)
(* runExactly.                                                             *)
(***************************************************************************)
\* const totalAttempts = deflakeRunCount + 1
TotalAttempts(deflakeRunCount) == deflakeRunCount + 1

repairUnchanged ==
  UNCHANGED poolVars /\ UNCHANGED actionVars /\ UNCHANGED commentVars /\ UNCHANGED <<parsedSteps, parseOutcome>> /\
  UNCHANGED <<updatedSteps, i, step, repairAttempt, repairHistory, recentRepairs,
              repairAction, nextId, confidenceResponse, failure, lastEvent,
              execCount, advisorCalls, halt>>

\* a call that is given the content of a script
ScriptUse(callee, script) == [callee |-> callee, script |-> script]

\* variant of RunExactlyReturns in which runWithAIRepair starts the repair
\* whatever runExactly returned
RunExactlyReturnsRepairing(res) ==
  /\ runExactlyResult' = res
  /\ IF request.mode = "RUN_EXACTLY"
       THEN pc' = "done" /\ response' = res
       ELSE pc' = "prepare" /\ UNCHANGED response

\* runExactly has produced `res`: executeScript returns it in RUN_EXACTLY mode,
\* runWithAIRepair returns it when it is a success and starts the repair otherwise.
RunExactlyReturns(res) ==
  /\ runExactlyResult' = res
  /\ IF request.mode = "RUN_EXACTLY" \/ res.run_status = "success"
       THEN pc' = "done" /\ response' = res
       ELSE pc' = "prepare" /\ UNCHANGED response

\* variant of ExecuteScript without the check of request.script
ExecuteScriptUnchecked ==
  /\ pc = "start"
  /\ pc' = "launch"
  /\ attempt' = 1
  /\ UNCHANGED <<request, lastError, runExactlyResult, response>>
  /\ UNCHANGED scriptRuns
  /\ repairUnchanged
  /\ UNCHANGED <<openSessions, scriptLog>>
  /\ UNCHANGED repairLog
  /\ UNCHANGED executedOk

\* executeScript is called: both modes check request.script before anything else
\* and the first attempt starts to open its browser.
ExecuteScript ==
  /\ pc = "start"
  /\ IF ~request.hasScript
       THEN /\ pc' = "done"
            /\ response' = ExecuteScriptCaught(<<"Script content is required", 0>>)
            /\ UNCHANGED attempt
       ELSE /\ pc' = "launch"
            /\ attempt' = 1
            /\ UNCHANGED response
  /\ UNCHANGED <<request, lastError, runExactlyResult>>
  /\ UNCHANGED scriptRuns
  /\ repairUnchanged
  /\ UNCHANGED <<openSessions, scriptLog>>
  /\ UNCHANGED repairLog
  /\ UNCHANGED executedOk

\* initializeBrowser of an attempt returns: the script starts to run.
LaunchReturns ==
  /\ pc = "launch"
  /\ pc' = "script"
  /\ scriptRuns' = scriptRuns + 1
  /\ UNCHANGED <<request, attempt, lastError, runExactlyResult, response>>
  /\ repairUnchanged
  /\ openSessions' = Opened(openSessions, RunSession(attempt))
  /\ scriptLog' = Append(scriptLog, ScriptUse("executeScriptContent", request.script))
  /\ UNCHANGED repairLog
  /\ UNCHANGED executedOk

\* initializeBrowser throws outside the try block: runExactly throws, and
\* executeScript's catch builds the response.
LaunchThrows ==
  /\ pc = "launch"
  /\ pc' = "done"
  /\ response' = ExecuteScriptCaught(<<"browser launch failed", 0>>)
  /\ UNCHANGED <<request, attempt, lastError, runExactlyResult>>
  /\ UNCHANGED scriptRuns
  /\ repairUnchanged
  /\ UNCHANGED <<openSessions, scriptLog>>
  /\ UNCHANGED repairLog
  /\ UNCHANGED executedOk

\* executeScriptContent returns: browser.close() is awaited inside the try.
ScriptReturns ==
  /\ pc = "script"
  /\ pc' = "close"
  /\ UNCHANGED <<request, attempt, lastError, runExactlyResult, response>>
  /\ UNCHANGED scriptRuns
  /\ repairUnchanged
  /\ UNCHANGED <<openSessions, scriptLog>>
  /\ UNCHANGED repairLog
  /\ UNCHANGED executedOk

\* executeScriptContent throws: lastError is set, the catch closes the browser.
ScriptThrows ==
  /\ pc = "script"
  /\ lastError' = ScriptError(attempt)
  /\ pc' = "closeAfterError"
  /\ UNCHANGED <<request, attempt, runExactlyResult, response>>
  /\ UNCHANGED scriptRuns
  /\ repairUnchanged
  /\ UNCHANGED <<openSessions, scriptLog>>
  /\ UNCHANGED repairLog
  /\ UNCHANGED executedOk

\* browser.close() after a successful script returns: runExactly returns success.
CloseReturns ==
  /\ pc = "close"
  /\ RunExactlyReturns(RunExactlySuccess(attempt))
  /\ UNCHANGED <<request, attempt, lastError>>
  /\ UNCHANGED scriptRuns
  /\ repairUnchanged
  /\ openSessions' = Closed(openSessions, RunSession(attempt))
  /\ UNCHANGED scriptLog
  /\ UNCHANGED repairLog
  /\ UNCHANGED executedOk

\* browser.close() after a successful script throws: the throw lands in the same
\* catch block as a script failure.
CloseThrows ==
  /\ pc = "close"
  /\ lastError' = CloseError(attempt)
  /\ pc' = "closeAfterError"
  /\ UNCHANGED <<request, attempt, runExactlyResult, response>>
  /\ UNCHANGED scriptRuns
  /\ repairUnchanged
  /\ openSessions' = Closed(openSessions, RunSession(attempt))
  /\ UNCHANGED scriptLog
  /\ UNCHANGED repairLog
  /\ UNCHANGED executedOk

\* The catch block's browser.close() settles (a throw is swallowed): next attempt,
\* or the failed response after the last one.
CloseAfterError ==
  /\ pc = "closeAfterError"
  /\ IF attempt < TotalAttempts(request.deflake_run_count)
       THEN /\ attempt' = attempt + 1
            /\ pc' = "launch"
            /\ UNCHANGED <<runExactlyResult, response>>
       ELSE /\ RunExactlyReturns(RunExactlyFailed(request.deflake_run_count, lastError))
            /\ UNCHANGED attempt
  /\ UNCHANGED <<request, lastError>>
  /\ UNCHANGED scriptRuns
  /\ repairUnchanged
  /\ openSessions' = Closed(openSessions, RunSession(attempt))
  /\ UNCHANGED scriptLog
  /\ UNCHANGED repairLog
  /\ UNCHANGED executedOk

(***************************************************************************)
(* The step sequence. A step object is [id, success, error]: id stands for *)
(* the object's identity, description and code; success is the JavaScript  *)
(* value of step.success ("undefined" is a step never executed: pending).  *)
(* Positions are 0-based as in the code; Sequences are 1-based.            *)
(***************************************************************************)
Min(a, b) == IF a < b THEN a ELSE b
Max(a, b) == IF a > b THEN a ELSE b

At(steps, k) == steps[k + 1]

\* a step as the segmenter returns it: no success, no error
ParsedStep(id) == [id |-> id, success |-> "undefined", error |-> "undefined"]

\* { ...action.newStep, success: false, error: undefined }
NewStepObject(id) == [id |-> id, success |-> "false", error |-> "undefined"]

\* Array.prototype.splice's start position
SpliceStart(steps, k) == IF k < 0 THEN Max(Len(steps) + k, 0) ELSE Min(k, Len(steps))

\* steps.splice(k, 0, x)
SpliceInsert(steps, k, x) ==
  LET st == SpliceStart(steps, k)
  IN SubSeq(steps, 1, st) \o <<x>> \o SubSeq(steps, st + 1, Len(steps))

\* steps.splice(k, 1)
SpliceRemove(steps, k) ==
  LET st == SpliceStart(steps, k)
  IN SubSeq(steps, 1, st) \o SubSeq(steps, st + 2, Len(steps))

\* steps[k] = x, for a position of the array
AssignAt(steps, k, x) == [steps EXCEPT ![k + 1] = x]

\* a write of success and error through a reference to the object `id`; the
\* object may have left the array, and then the array does not change
WriteStatus(steps, id, succ, err) ==
  [k \in DOMAIN steps |->
     IF steps[k].id = id THEN [steps[k] EXCEPT !.success = succ, !.error = err]
     ELSE steps[k]]

WriteSuccess(steps, id, succ) ==
  [k \in DOMAIN steps |->
     IF steps[k].id = id THEN [steps[k] EXCEPT !.success = succ] ELSE steps[k]]

WriteError(steps, id, err) ==
  [k \in DOMAIN steps |->
     IF steps[k].id = id THEN [steps[k] EXCEPT !.error = err] ELSE steps[k]]

\* variant of RestoreStatus that reads the saved status one index too low
RestoreStatusOffByOne(before, after, insertIndex) ==
  [k \in DOMAIN after |->
     IF k - 1 > insertIndex /\ k - 2 >= 1
       THEN [after[k] EXCEPT !.success = before[k - 2].success,
                             !.error = before[k - 2].error]
       ELSE after[k]]

\* applyRepairActionInContext, INSERT: the loop that restores the statuses saved
\* in successStatusMap on the steps after insertIndex
RestoreStatus(before, after, insertIndex) ==
  [k \in DOMAIN after |->
     IF k - 1 > insertIndex /\ k - 2 < Len(before)
       THEN [after[k] EXCEPT !.success = before[k - 1].success,
                             !.error = before[k - 1].error]
       ELSE after[k]]

StepIds(steps) == {steps[k].id : k \in DOMAIN steps}

(***************************************************************************)
(* runWithAIRepair: the classification of the steps repairStepsWithAI      *)
(* returned.                                                               *)
(***************************************************************************)
\* updatedSteps.length > 0 && updatedSteps.every(step => step.success)
AllStepsSuccessful(steps) ==
  Len(steps) > 0 /\ \A k \in DOMAIN steps : steps[k].success = "true"

\* updatedSteps.some(step => step.success)
HasSuccessfulRepairs(steps) == \E k \in DOMAIN steps : steps[k].success = "true"

(***************************************************************************)
(* Segmentation of the script into steps.  A script is its sequence of     *)
(* lines; a line is known by what the segmenters look at and by what it    *)
(* is.  Its kind is one of                                                 *)
(*   marker       a '// Step ' line                                        *)
(*   exec         a statement cleanStepCode's regular expression matches,  *)
(*                as  await page.click('#a');                              *)
(*   plain        a statement the expression does not match, as  n++;      *)
(*   importCall   a statement whose text starts with 'import', as          *)
(*                importFixtures(page);                                    *)
(*   callComment  a comment the expression matches, as  // retry (slow)    *)
(*   other        a comment the expression does not match                  *)
(*   import, test, close   an import, the test( opener, the closing '});'  *)
(*   blank        an empty line                                            *)
(***************************************************************************)
Line(kind, text) == [kind |-> kind, text |-> text]

\* the line is a statement of the script: code that executes
Executable(line) == line.kind \in {"exec", "plain", "importCall"}

\* cleanStepCode: hasExecutableCode, the regular expression on one line
MatchesExecutablePattern(line) == line.kind \in {"exec", "callComment"}

\* parseScriptIntoStepsFallback: the else-if of the loop, a line that is not
\* blank and starts with none of 'import', 'test(' and '});'
IsCodeLine(line) == line.kind \in {"exec", "plain", "callComment", "other"}

\* a script with three markers, the second followed by a comment only
ScriptWithMarkers ==
  << Line("import", 0), Line("test", 0),
     Line("marker", 1), Line("exec", 11),
     Line("marker", 2), Line("other", 21),
     Line("marker", 3), Line("exec", 31), Line("other", 32),
     Line("close", 0) >>

\* a script without markers
ScriptWithoutMarkers ==
  << Line("import", 0), Line("test", 0), Line("exec", 11), Line("close", 0) >>

Scripts == {ScriptWithMarkers, ScriptWithoutMarkers}

\* cleanStepCode: '' unless the code holds an executable statement
cleanStepCode(code) ==
  IF \E k \in DOMAIN code : MatchesExecutablePattern(code[k]) THEN code ELSE <<>>

\* parseScriptIntoStepsFallback: "Save previous step if exists and has code"
SaveStep(result, currentStep, currentCode) ==
  IF currentStep # Null /\ cleanStepCode(currentCode) # <<>>
    THEN Append(result, [description |-> currentStep[2],
                         code |-> cleanStepCode(currentCode)])
    ELSE result

RECURSIVE FallbackLoop(_, _, _, _)
\* parseScriptIntoStepsFallback: the loop over the lines and the final save
FallbackLoop(lines, result, currentStep, currentCode) ==
  IF lines = <<>> THEN SaveStep(result, currentStep, currentCode)
  ELSE LET line == Head(lines)
       IN IF line.kind = "marker"
            THEN FallbackLoop(Tail(lines), SaveStep(result, currentStep, currentCode),
                              <<"step", line.text>>, <<>>)
          ELSE IF IsCodeLine(line) /\ currentStep # Null
            THEN FallbackLoop(Tail(lines), result, currentStep,
                              Append(currentCode, line))
          ELSE FallbackLoop(Tail(lines), result, currentStep, currentCode)

parseScriptIntoStepsFallback(script) == FallbackLoop(script, <<>>, Null, <<>>)

\* what the advisor's segmentation call does: callLLM throws, its answer is
\* not JSON, the JSON has no steps array, or it has one with n steps
LLMAnswers ==
  [kind : {"steps"}, n : 0..MaxInitSteps]
    \cup [kind : {"llmError", "notJson", "badFormat"}, n : {0}]

\* LLMFacade.parseScriptIntoSteps: the steps array of the answer; every failure
\* is caught and answered with an empty array, so the call never throws
LLMFacadeParseScriptIntoSteps(answer) ==
  [threw |-> FALSE,
   steps |-> IF answer.kind = "steps"
               THEN [k \in 1..answer.n |->
                       [description |-> k, code |-> <<Line("exec", k)>>]]
               ELSE <<>>]

\* ExecutionService.parseScriptIntoSteps: the fallback runs when the facade throws
parseScriptIntoSteps(script, answer) ==
  LET result == LLMFacadeParseScriptIntoSteps(answer)
  IN IF result.threw THEN parseScriptIntoStepsFallback(script) ELSE result.steps

(***************************************************************************)
(* repairStepsWithAI.                                                      *)
(***************************************************************************)
prepareUnchanged ==
  UNCHANGED poolVars /\ UNCHANGED actionVars /\ UNCHANGED commentVars /\
  UNCHANGED <<request, attempt, lastError, runExactlyResult, scriptRuns>>

runUnchanged == prepareUnchanged /\ UNCHANGED <<parsedSteps, parseOutcome>>

\* variant of BuildRepairAction that takes the advisor's 1-based step number
\* as stepIndex
BuildRepairActionAsAdvised(op, hasNewStep, id, cursor) ==
  [operation |-> op, stepIndex |-> cursor + 1,
   hasInsertAfterIndex |-> (op = "INSERT"),
   insertAfterIndex |-> IF op = "INSERT" THEN cursor - 1 ELSE 0,
   hasNewStep |-> hasNewStep, newStep |-> id]

\* the repair action built from the advisor's suggestion: stepIndex and
\* insertAfterIndex are set from the cursor, whatever the advisor returned
BuildRepairAction(op, hasNewStep, id, cursor) ==
  [operation |-> op, stepIndex |-> cursor,
   hasInsertAfterIndex |-> (op = "INSERT"),
   insertAfterIndex |-> IF op = "INSERT" THEN cursor - 1 ELSE 0,
   hasNewStep |-> hasNewStep, newStep |-> id]

NoAction == BuildRepairAction("MODIFY", FALSE, 0, 0)

\* applyRepairActionInContext up to its first await (or its return when there is
\* none): what it does next ...
ApplyKind(action) ==
  CASE action.operation = "MODIFY" /\ action.hasNewStep -> "execute"
    [] action.operation = "INSERT" /\ action.hasNewStep /\ action.hasInsertAfterIndex
         -> "execute"
    [] action.operation = "REMOVE" -> "success"
    [] OTHER -> "invalid"

\* ... and the array it leaves
ApplyToSteps(action, steps) ==
  CASE action.operation = "MODIFY" /\ action.hasNewStep ->
         AssignAt(steps, action.stepIndex, NewStepObject(action.newStep))
    [] action.operation = "INSERT" /\ action.hasNewStep /\ action.hasInsertAfterIndex ->
         LET insertIndex == action.insertAfterIndex + 1
         IN RestoreStatus(steps,
                          SpliceInsert(steps, insertIndex, NewStepObject(action.newStep)),
                          insertIndex)
    [] action.operation = "REMOVE" -> SpliceRemove(steps, action.stepIndex)
    [] OTHER -> steps

\* result.success: the marking of the repaired step(s)
MarkRepaired(action, steps, cursor, stepRef) ==
  CASE action.operation = "MODIFY" ->
         LET viaStep == WriteStatus(steps, stepRef, "true", "undefined")
         IN AssignAt(viaStep, cursor,
                     [At(viaStep, cursor) EXCEPT !.success = "true", !.error = "undefined"])
    [] action.operation = "INSERT" ->
         LET insertIndex == IF action.hasInsertAfterIndex
                              THEN action.insertAfterIndex + 1 ELSE cursor + 1
         IN IF insertIndex >= 0 /\ insertIndex < Len(steps)
              THEN AssignAt(steps, insertIndex,
                     [At(steps, insertIndex) EXCEPT !.success = "true", !.error = "undefined"])
              ELSE steps
    [] OTHER -> steps

\* variant of CursorAfterRepair in which the cursor stays on a modified step, which the
\* next outer iteration then executes again
CursorAfterRepairStaying(action, cursor) ==
  CASE action.operation = "INSERT" ->
         IF action.hasInsertAfterIndex /\ action.insertAfterIndex < cursor
           THEN cursor + 1 ELSE cursor
    [] OTHER -> cursor

\* result.success: "Update step index based on operation"
CursorAfterRepair(action, cursor) ==
  CASE action.operation = "INSERT" ->
         IF action.hasInsertAfterIndex /\ action.insertAfterIndex < cursor
           THEN cursor + 1 ELSE cursor
    [] action.operation = "REMOVE" -> cursor
    [] OTHER -> cursor + 1

\* the entry recentRepairs.push is given for a repair applied under `cursor`
RepairEntry(action, cursor) ==
  [stepNumber |-> cursor + 1, operation |-> action.operation,
   newStep |-> IF action.hasNewStep THEN action.newStep ELSE 0]

\* variant of PushRecentRepair that drops the newest entry of a full buffer
PushRecentRepairKeepingOldest(recent, entry) ==
  IF Len(recent) >= 3 THEN recent ELSE Append(recent, entry)

\* recentRepairs.push(...); if (recentRepairs.length > 3) recentRepairs.shift()
PushRecentRepair(recent, entry) ==
  LET pushed == Append(recent, entry)
  IN IF Len(pushed) > 3 THEN Tail(pushed) ELSE pushed

\* variant of MoreTries that lets the inner loop run one more attempt
MoreTriesOneMore(nextAttempt) == nextAttempt <= maxTries + 1

\* buildFailureHistory: the attempts of repairHistory, in its order
buildFailureHistory(history) ==
  [k \in DOMAIN history |-> <<history[k].attempt, history[k].operation, history[k].error>>]

\* the test of the inner for loop after attempt++
MoreTries(nextAttempt) == nextAttempt <= maxTries

\* the pc after repairStepsWithAI returned `steps`
AfterLoopPc(steps) == IF HasSuccessfulRepairs(steps) THEN "assess" ELSE "repairClose"

\* the test of the outer while loop: the next step is executed or the loop ends
LoopTop(steps, cursor) ==
  IF cursor < Len(steps)
    THEN pc' = "step" /\ step' = At(steps, cursor).id
    ELSE pc' = AfterLoopPc(steps) /\ UNCHANGED step

\* if (!repairSuccess) break: the outer loop is left with the cursor on the step
HaltLoop(steps) == pc' = AfterLoopPc(steps) /\ UNCHANGED step

Bump(counts, id) == [counts EXCEPT ![id] = @ + 1]

\* Promise.all([parseScriptIntoSteps, initializeBrowser]) resolves: the loop
\* starts on the n parsed steps.
PrepareReturns ==
  /\ pc = "prepare"
  /\ \E answer \in LLMAnswers :
       /\ parsedSteps' = parseScriptIntoSteps(request.script, answer)
       /\ parseOutcome' = answer.kind
  /\ LET n == Len(parsedSteps')
     IN /\ updatedSteps' = [k \in 1..n |-> ParsedStep(k)]
        /\ nextId' = n + 1
        /\ execCount' = [k \in 1..n |-> 0]
        /\ LoopTop(updatedSteps', 0)
  /\ i' = 0
  /\ UNCHANGED <<repairAttempt, repairHistory, recentRepairs, repairAction,
                 confidenceResponse, response, failure, lastEvent, advisorCalls, halt>>
  /\ prepareUnchanged
  /\ openSessions' = Opened(openSessions, RepairSession)
  /\ scriptLog' = Append(scriptLog, ScriptUse("parseScriptIntoSteps", request.script))
  /\ UNCHANGED repairLog
  /\ UNCHANGED executedOk

\* the repair browser fails to open: runWithAIRepair's catch builds the response.
PrepareThrows ==
  /\ pc = "prepare"
  /\ pc' = "done"
  /\ response' = RepairCaught(runExactlyResult, <<"browser launch failed", 0>>)
  /\ UNCHANGED <<updatedSteps, i, step, repairAttempt, repairHistory, recentRepairs,
                 repairAction, nextId, confidenceResponse, failure, lastEvent,
                 execCount, advisorCalls, halt>>
  /\ runUnchanged
  /\ UNCHANGED <<openSessions, scriptLog>>
  /\ UNCHANGED repairLog
  /\ UNCHANGED executedOk

\* executeStepCode(step.code) returns: step.success = true; i++.
StepReturns ==
  /\ pc = "step"
  /\ updatedSteps' = WriteSuccess(updatedSteps, step, "true")
  /\ i' = i + 1
  /\ execCount' = Bump(execCount, step)
  /\ lastEvent' = "stepOk"
  /\ LoopTop(updatedSteps', i')
  /\ UNCHANGED <<repairAttempt, repairHistory, recentRepairs, repairAction, nextId,
                 confidenceResponse, response, failure, advisorCalls, halt>>
  /\ runUnchanged
  /\ UNCHANGED <<openSessions, scriptLog>>
  /\ UNCHANGED repairLog
  /\ executedOk' = executedOk \cup {step}

\* executeStepCode(step.code) throws: the step is marked failed and the inner
\* repair loop starts with attempt 1 (page info, then the advisor is asked).
StepThrows ==
  /\ pc = "step"
  /\ updatedSteps' = WriteStatus(updatedSteps, step, "false", "stepError")
  /\ execCount' = Bump(execCount, step)
  /\ repairHistory' = <<>>
  /\ repairAttempt' = 1
  /\ failure' = [i |-> i, steps |-> updatedSteps]
  /\ advisorCalls' = 0
  /\ lastEvent' = "stepFailed"
  /\ pc' = "advise"
  /\ UNCHANGED <<i, step, recentRepairs, repairAction, nextId, confidenceResponse,
                 response, halt>>
  /\ runUnchanged
  /\ UNCHANGED <<openSessions, scriptLog>>
  /\ UNCHANGED repairLog
  /\ UNCHANGED executedOk

\* result.success of applyRepairActionInContext: the step(s) are marked, the
\* repair is recorded, the cursor is updated and the inner loop is left.
RepairSucceeded(action, steps) ==
  /\ updatedSteps' = MarkRepaired(action, steps, i, step)
  /\ i' = CursorAfterRepair(action, i)
  /\ recentRepairs' = PushRecentRepair(recentRepairs, RepairEntry(action, i))
  /\ repairLog' = Append(repairLog, RepairEntry(action, i))
  /\ lastEvent' = "repaired"
  /\ LoopTop(updatedSteps', i')
  /\ UNCHANGED <<repairAttempt, repairHistory, halt>>

\* the catch block of a repair attempt: the attempt is recorded, step.error is
\* set, and the inner loop goes on to the next attempt or runs out of tries.
AttemptFailed(action, steps) ==
  /\ updatedSteps' = WriteError(steps, step, "repairError")
  /\ repairHistory' = Append(repairHistory,
                        [attempt |-> repairAttempt, operation |-> action.operation,
                         error |-> "repairError"])
  /\ repairAttempt' = repairAttempt + 1
  /\ lastEvent' = "attemptFailed"
  /\ IF MoreTries(repairAttempt')
       THEN pc' = "advise" /\ UNCHANGED <<step, halt>>
       ELSE halt' = "exhausted" /\ HaltLoop(updatedSteps')
  /\ UNCHANGED <<i, recentRepairs, repairLog>>

\* getRepairSuggestion throws (the call or JSON.parse fails), or it returns no
\* action and the catch block of the attempt throws on action.operation: the
\* exception leaves repairStepsWithAI and runWithAIRepair's catch builds the response.
AdvisorThrows ==
  /\ pc = "advise"
  /\ advisorCalls' = advisorCalls + 1
  /\ halt' = "threw"
  /\ lastEvent' = "threw"
  /\ pc' = "done"
  /\ response' = RepairCaught(runExactlyResult, <<"advisor failed", 0>>)
  /\ UNCHANGED <<updatedSteps, i, step, repairAttempt, repairHistory, recentRepairs,
                 repairAction, nextId, confidenceResponse, failure, execCount>>
  /\ runUnchanged
  /\ UNCHANGED <<openSessions, scriptLog>>
  /\ UNCHANGED repairLog
  /\ UNCHANGED executedOk

\* getRepairSuggestion returns shouldContinue = false: break, then break.
AdvisorStops ==
  /\ pc = "advise"
  /\ advisorCalls' = advisorCalls + 1
  /\ halt' = "stopped"
  /\ lastEvent' = "stopped"
  /\ HaltLoop(updatedSteps)
  /\ UNCHANGED <<updatedSteps, i, repairAttempt, repairHistory, recentRepairs,
                 repairAction, nextId, confidenceResponse, response, failure, execCount>>
  /\ runUnchanged
  /\ UNCHANGED <<openSessions, scriptLog>>
  /\ UNCHANGED repairLog
  /\ UNCHANGED executedOk

\* getRepairSuggestion returns an action: it is applied to the array; MODIFY and
\* INSERT then await the new step's code, REMOVE and an invalid action finish
\* the attempt at once.
AdvisorSuggests ==
  /\ pc = "advise"
  /\ \E op \in {"MODIFY", "INSERT", "REMOVE"}, hasNewStep \in BOOLEAN :
       /\ op = "REMOVE" => ~hasNewStep
       /\ hasNewStep => nextId <= MaxStepObjects
       /\ LET action == BuildRepairAction(op, hasNewStep,
                                          IF hasNewStep THEN nextId ELSE 0, i)
              applied == ApplyToSteps(action, updatedSteps)
          IN /\ repairAction' = action
             /\ nextId' = IF hasNewStep THEN nextId + 1 ELSE nextId
             /\ CASE ApplyKind(action) = "execute" ->
                       /\ updatedSteps' = applied
                       /\ execCount' = Append(execCount, 0)
                       /\ pc' = "apply"
                       /\ lastEvent' = "applying"
                       /\ UNCHANGED <<i, step, repairAttempt, repairHistory,
                                      recentRepairs, repairLog, halt>>
                  [] ApplyKind(action) = "success" ->
                       /\ RepairSucceeded(action, applied)
                       /\ UNCHANGED execCount
                  [] OTHER ->
                       /\ AttemptFailed(action, applied)
                       /\ UNCHANGED execCount
  /\ advisorCalls' = advisorCalls + 1
  /\ UNCHANGED <<confidenceResponse, response, failure>>
  /\ runUnchanged
  /\ UNCHANGED <<openSessions, scriptLog>>
  /\ UNCHANGED executedOk

\* executeStepCode(action.newStep.code) returns inside applyRepairActionInContext.
RepairCodeReturns ==
  /\ pc = "apply"
  /\ execCount' = Bump(execCount, repairAction.newStep)
  /\ RepairSucceeded(repairAction, updatedSteps)
  /\ UNCHANGED <<repairAction, nextId, confidenceResponse, response, failure,
                 advisorCalls>>
  /\ runUnchanged
  /\ UNCHANGED <<openSessions, scriptLog>>
  /\ executedOk' = executedOk \cup {repairAction.newStep}

\* executeStepCode(action.newStep.code) throws: applyRepairActionInContext
\* returns success = false and the attempt fails.
RepairCodeThrows ==
  /\ pc = "apply"
  /\ execCount' = Bump(execCount, repairAction.newStep)
  /\ AttemptFailed(repairAction, updatedSteps)
  /\ UNCHANGED <<repairAction, nextId, confidenceResponse, response, failure,
                 advisorCalls>>
  /\ runUnchanged
  /\ UNCHANGED <<openSessions, scriptLog>>
  /\ UNCHANGED executedOk

(***************************************************************************)
(* runWithAIRepair after repairStepsWithAI returned.                       *)
(***************************************************************************)
loopUnchanged ==
  UNCHANGED <<updatedSteps, i, step, repairAttempt, repairHistory, recentRepairs,
              repairAction, nextId, failure, lastEvent, execCount, advisorCalls, halt>>

\* assessRepairConfidence returns: generateFinalScript is called.
AssessReturns ==
  /\ pc = "assess"
  /\ confidenceResponse' \in ConfidenceResponses
  /\ pc' = "final"
  /\ UNCHANGED response
  /\ loopUnchanged
  /\ runUnchanged
  /\ UNCHANGED <<openSessions, scriptLog>>
  /\ UNCHANGED repairLog
  /\ UNCHANGED executedOk

\* assessRepairConfidence throws: the catch block builds the response.
AssessThrows ==
  /\ pc = "assess"
  /\ pc' = "done"
  /\ response' = RepairCaught(runExactlyResult, <<"advisor failed", 0>>)
  /\ UNCHANGED confidenceResponse
  /\ loopUnchanged
  /\ runUnchanged
  /\ UNCHANGED <<openSessions, scriptLog>>
  /\ UNCHANGED repairLog
  /\ UNCHANGED executedOk

\* generateFinalScript returns: the repair browser is closed.
FinalScriptReturns ==
  /\ pc = "final"
  /\ pc' = "repairClose"
  /\ UNCHANGED <<confidenceResponse, response>>
  /\ loopUnchanged
  /\ runUnchanged
  /\ UNCHANGED <<openSessions, scriptLog>>
  /\ UNCHANGED repairLog
  /\ UNCHANGED executedOk

\* generateFinalScript throws (its callLLM fails): the catch block.
FinalScriptThrows ==
  /\ pc = "final"
  /\ pc' = "done"
  /\ response' = RepairCaught(runExactlyResult, <<"advisor failed", 0>>)
  /\ UNCHANGED confidenceResponse
  /\ loopUnchanged
  /\ runUnchanged
  /\ UNCHANGED <<openSessions, scriptLog>>
  /\ UNCHANGED repairLog
  /\ UNCHANGED executedOk

\* repairBrowser.close() returns: the response of the branch taken.
RepairCloseReturns ==
  /\ pc = "repairClose"
  /\ pc' = "done"
  /\ response' = IF HasSuccessfulRepairs(updatedSteps)
                   THEN RepairedResponse(runExactlyResult,
                                         AllStepsSuccessful(updatedSteps),
                                         confidenceResponse)
                   ELSE NotRepairedResponse(runExactlyResult)
  /\ UNCHANGED confidenceResponse
  /\ loopUnchanged
  /\ runUnchanged
  /\ openSessions' = Closed(openSessions, RepairSession)
  /\ UNCHANGED scriptLog
  /\ UNCHANGED repairLog
  /\ UNCHANGED executedOk

\* repairBrowser.close() throws: the catch block.
RepairCloseThrows ==
  /\ pc = "repairClose"
  /\ pc' = "done"
  /\ response' = RepairCaught(runExactlyResult, <<"browser close failed", 0>>)
  /\ UNCHANGED confidenceResponse
  /\ loopUnchanged
  /\ runUnchanged
  /\ openSessions' = Closed(openSessions, RepairSession)
  /\ UNCHANGED scriptLog
  /\ UNCHANGED repairLog
  /\ UNCHANGED executedOk

(***************************************************************************)
(* ScenarioService: the job queue and the worker pool. A running call is   *)
(* [job, worker]: processScenarioJob(job) was called on worker and has not *)
(* settled yet.                                                            *)
(***************************************************************************)
execUnchanged == UNCHANGED execVars /\ UNCHANGED actionVars /\ UNCHANGED commentVars

\* a job enters the log when it is dispatched for the first time
LogDispatch(log, job) ==
  IF \E k \in DOMAIN log : log[k] = job THEN log ELSE Append(log, job)

\* variant of ProcessNextJob that takes the job at the back of the queue
ProcessNextJobFromBack(pool) ==
  LET free == {k \in 1..Len(pool.workers) : pool.workers[k] \notin pool.busy}
  IN IF Len(pool.queue) = 0 \/ free = {}
       THEN pool
       ELSE LET first == CHOOSE k \in free : \A m \in free : k <= m
                availableWorker == pool.workers[first]
                job == pool.queue[Len(pool.queue)]
            IN [pool EXCEPT !.queue = SubSeq(pool.queue, 1, Len(pool.queue) - 1),
                            !.busy = pool.busy \cup {availableWorker},
                            !.log = LogDispatch(pool.log, job),
                            !.running = pool.running \cup
                                          {[job |-> job, worker |-> availableWorker]}]

\* processNextJob up to its await: nothing to do on an empty queue or with
\* every worker busy; otherwise the head job starts on the first worker of
\* this.workers that is not in busyWorkers.
ProcessNextJob(pool) ==
  LET free == {k \in 1..Len(pool.workers) : pool.workers[k] \notin pool.busy}
  IN IF Len(pool.queue) = 0 \/ free = {}
       THEN pool
       ELSE LET first == CHOOSE k \in free : \A m \in free : k <= m
                availableWorker == pool.workers[first]
                job == Head(pool.queue)
            IN [pool EXCEPT !.queue = Tail(pool.queue),
                            !.busy = pool.busy \cup {availableWorker},
                            !.log = LogDispatch(pool.log, job),
                            !.running = pool.running \cup
                                          {[job |-> job, worker |-> availableWorker]}]

\* handleJobResult: busyWorkers.clear(), then processNextJob()
HandleJobResult(pool) == ProcessNextJob([pool EXCEPT !.busy = {}])

\* the finally block of processNextJob: busyWorkers.delete(availableWorker),
\* then processNextJob()
ReleaseWorker(pool, availableWorker) ==
  ProcessNextJob([pool EXCEPT !.busy = pool.busy \ {availableWorker}])

\* variant of Requeue that puts the job at the back of the queue
RequeueAtBack(queue, job) == Append(queue, job)

\* this.jobQueue.unshift(job)
Requeue(queue, job) == <<job>> \o queue

ThePool == [workers |-> workers, queue |-> jobQueue, busy |-> busyWorkers,
            running |-> running, log |-> dispatchLog]

SetPool(pool) ==
  /\ jobQueue' = pool.queue
  /\ busyWorkers' = pool.busy
  /\ running' = pool.running
  /\ dispatchLog' = pool.log

\* initialize(): createWorker pushes one more initialized worker.
CreateWorker ==
  /\ workersCreated < MaxWorkers
  /\ workersCreated' = workersCreated + 1
  /\ workers' = Append(workers, workersCreated')
  /\ UNCHANGED <<jobQueue, busyWorkers, running, nextJob, jobComplete, requeues,
                 dispatchLog, jobError, shutdownPc>>
  /\ execUnchanged

\* processScenario: the job is pushed and processNextJob is called.
ProcessScenario ==
  /\ nextJob < MaxJobs
  /\ nextJob' = nextJob + 1
  /\ requeues' = Append(requeues, 0)
  /\ SetPool(ProcessNextJob([ThePool EXCEPT !.queue = Append(jobQueue, nextJob')]))
  /\ UNCHANGED <<workers, jobComplete, jobError, workersCreated, shutdownPc>>
  /\ execUnchanged

\* a processScenarioJob call returns: handleJobResult, then the finally block.
JobReturns ==
  /\ \E call \in running :
       /\ jobComplete' = jobComplete \cup {call.job}
       /\ SetPool(ReleaseWorker(
                    HandleJobResult([ThePool EXCEPT !.running = running \ {call}]),
                    call.worker))
  /\ UNCHANGED <<workers, nextJob, requeues, jobError, workersCreated, shutdownPc>>
  /\ execUnchanged

\* a processScenarioJob call throws: jobError is emitted, the job is put back at
\* the front of the queue, then the finally block.  (The count of the re-queues
\* of a job stops at MaxRequeues; the job is put back all the same.)
JobThrows ==
  /\ \E call \in running :
       /\ requeues' = [requeues EXCEPT ![call.job] = Min(@ + 1, MaxRequeues)]
       /\ jobError' = jobError \cup {call.job}
       /\ SetPool(ReleaseWorker(
                    [ThePool EXCEPT !.running = running \ {call},
                                    !.queue = Requeue(jobQueue, call.job)],
                    call.worker))
  /\ UNCHANGED <<workers, nextJob, jobComplete, workersCreated, shutdownPc>>
  /\ execUnchanged

\* shutdown() is called: worker.cleanup() is started on every worker and
\* Promise.all is awaited.
Shutdown ==
  /\ shutdownPc = "none"
  /\ shutdownPc' = "cleanup"
  /\ UNCHANGED <<workers, jobQueue, busyWorkers, running, nextJob, jobComplete,
                 requeues, dispatchLog, jobError, workersCreated>>
  /\ execUnchanged

\* the cleanups have settled: this.workers = []; this.busyWorkers.clear().
ShutdownCompletes ==
  /\ shutdownPc = "cleanup"
  /\ shutdownPc' = "done"
  /\ workers' = <<>>
  /\ busyWorkers' = {}
  /\ UNCHANGED <<jobQueue, running, nextJob, jobComplete, requeues, dispatchLog,
                 jobError, workersCreated>>
  /\ execUnchanged

(***************************************************************************)
(* The action run: run() of index.ts (the version that executes the test   *)
(* files concurrently).                                                    *)
(***************************************************************************)
serviceUnchanged == UNCHANGED execVars /\ UNCHANGED poolVars /\ UNCHANGED commentVars

\* the inputs read by getInput, the documented create-pr-on-repair input, and
\* the number of test files findTestChimpManagedTests returns
ActionInputs ==
  [successCriteria : {"ORIGINAL_SUCCESS", "REPAIR_SUCCESS_WITH_CONFIDENCE"},
   repairConfidenceThreshold : {3, 4},
   maxWorkers : 1..MaxWorkersInput,
   createPrOnRepair : BOOLEAN,
   testFiles : 0..MaxTestFiles]

\* the results testChimpService.executeScript can resolve to
ExecuteScriptResults ==
  LET failedRun == RunExactlyFailed(0, ScriptError(1))
  IN {RunExactlySuccess(1), failedRun,
      RepairCaught(failedRun, <<"advisor failed", 0>>),
      NotRepairedResponse(failedRun)}
       \cup {RepairedResponse(failedRun, all, assessed) :
               all \in BOOLEAN, assessed \in ConfidenceResponses}

\* (result.repair_confidence || 0)
ConfidenceOrZero(result) ==
  IF result.repair_confidence = NoNumber THEN 0 ELSE result.repair_confidence

\* variant of IsSuccessful that accepts a repair under every success criteria
IsSuccessfulIgnoringCriteria(result, successCriteria, threshold) ==
  \/ result.run_status = "success"
  \/ /\ result.repair_status = "success"
     /\ ConfidenceOrZero(result) >= threshold

\* the execution promise of a test file: isSuccessful
IsSuccessful(result, successCriteria, threshold) ==
  \/ result.run_status = "success"
  \/ /\ successCriteria = "REPAIR_SUCCESS_WITH_CONFIDENCE"
     /\ result.repair_status = "success"
     /\ ConfidenceOrZero(result) >= threshold

NoOutputs == [status |-> Absent, successCount |-> NoNumber, failureCount |-> NoNumber]

Files == DOMAIN fileState

\* if (failureCount > 0) core.setFailed(`${failureCount} tests failed`)
FailedTests(failureCount) == IF failureCount > 0 THEN "tests failed" ELSE Absent

\* run() up to `await testChimpService.initialize()`: without credentials the
\* action is set failed and returns.
Run ==
  /\ runPc = "start"
  /\ \E credentials \in BOOLEAN :
       IF credentials
         THEN runPc' = "initialize" /\ UNCHANGED failed
         ELSE runPc' = "end" /\ failed' = "api-key and project-id are required"
  /\ UNCHANGED <<inputs, fileState, fileResult, isSuccessful, repairedFiles, outputs,
                 pullRequest>>
  /\ UNCHANGED writtenTests
  /\ serviceUnchanged

\* initialize() resolves: with no test file the outputs say 'skipped'; otherwise
\* allTestFiles.map starts the execution of every test file and run() awaits
\* Promise.all.
InitializeReturns ==
  /\ runPc = "initialize"
  /\ IF inputs.testFiles = 0
       THEN /\ outputs' = [status |-> "skipped", successCount |-> 0, failureCount |-> 0]
            /\ runPc' = "end"
            /\ UNCHANGED fileState
       ELSE /\ fileState' = [f \in Files |-> "pending"]
            /\ runPc' = "executing"
            /\ UNCHANGED outputs
  /\ UNCHANGED <<inputs, fileResult, isSuccessful, repairedFiles, failed, pullRequest>>
  /\ UNCHANGED writtenTests
  /\ serviceUnchanged

\* initialize() rejects: the outer catch sets the action failed.
InitializeThrows ==
  /\ runPc = "initialize"
  /\ runPc' = "end"
  /\ failed' = "Action failed"
  /\ UNCHANGED <<inputs, fileState, fileResult, isSuccessful, repairedFiles, outputs,
                 pullRequest>>
  /\ UNCHANGED writtenTests
  /\ serviceUnchanged

\* a call fileHandler.writeRepairedTest(resolvedPath, result.updated_script)
WrittenTest(f, result) == [file |-> f, repair_status |-> result.repair_status]

\* TestChimpService.executeScript: the condition of the call of writeRepairedTest
\* (request.scriptFilePath is set by run() for every test file)
WritesRepairedTest(result) ==
  result.repair_status = "success" /\ result.updated_script # Absent

\* variant of QueuedForPullRequest that also queues a partial repair
QueuedForPullRequestAnyRepair(result) ==
  result.repair_status \in {"success", "partial"} /\ result.updated_script # Absent

\* the execution promise of a test file: the condition of repairedFiles.set
QueuedForPullRequest(result) ==
  result.repair_status = "success" /\ result.updated_script # Absent

\* testChimpService.executeScript resolves for a test file: the repaired test
\* has been written, and the execution promise queues it and computes
\* isSuccessful.
ExecutionReturns ==
  /\ runPc = "executing"
  /\ \E f \in Files, result \in ExecuteScriptResults :
       /\ fileState[f] = "pending"
       /\ fileState' = [fileState EXCEPT ![f] = "settled"]
       /\ fileResult' = [fileResult EXCEPT ![f] = result]
       /\ writtenTests' =
            IF WritesRepairedTest(result)
              THEN writtenTests \cup {WrittenTest(f, result)} ELSE writtenTests
       /\ repairedFiles' =
            IF QueuedForPullRequest(result) THEN repairedFiles \cup {f} ELSE repairedFiles
       /\ isSuccessful' =
            [isSuccessful EXCEPT ![f] = IsSuccessful(result, inputs.successCriteria,
                                                     inputs.repairConfidenceThreshold)]
  /\ UNCHANGED <<inputs, runPc, outputs, failed, pullRequest>>
  /\ serviceUnchanged

\* testChimpService.executeScript rejects for a test file, because the test
\* file cannot be read or because writeRepairedTest throws: the catch of its
\* execution promise.
ExecutionThrows ==
  /\ runPc = "executing"
  /\ \E f \in Files :
       /\ fileState[f] = "pending"
       /\ \/ UNCHANGED writtenTests
          \/ \E result \in ExecuteScriptResults :
               /\ WritesRepairedTest(result)
               /\ writtenTests' = writtenTests \cup {WrittenTest(f, result)}
       /\ fileState' = [fileState EXCEPT ![f] = "rejected"]
       /\ UNCHANGED fileResult
       /\ isSuccessful' = [isSuccessful EXCEPT ![f] = FALSE]
  /\ UNCHANGED <<inputs, runPc, repairedFiles, outputs, failed, pullRequest>>
  /\ serviceUnchanged

\* the test files whose execution promise has resolved
Settled == {f \in Files : fileState[f] \in {"settled", "rejected"}}

\* Promise.all resolves: the counts, the outputs, and the start of the pull
\* request when repairedFiles is not empty.
AllSettled ==
  /\ runPc = "executing"
  /\ Settled = Files
  /\ LET successCount == Cardinality({f \in Files : isSuccessful[f]})
         failureCount == Len(fileState) - successCount
     IN /\ outputs' = [status |-> IF failureCount = 0 THEN "success" ELSE "failed",
                       successCount |-> successCount,
                       failureCount |-> failureCount]
        /\ IF repairedFiles # {}
             THEN \E ciPipeline \in {"pipeline", "null", "throws"} :
                    CASE ciPipeline = "pipeline" ->
                           runPc' = "pullRequest" /\ UNCHANGED <<failed, pullRequest>>
                      [] ciPipeline = "null" ->
                           runPc' = "end" /\ pullRequest' = "skipped" /\ UNCHANGED failed
                      [] OTHER ->
                           /\ runPc' = "end"
                           /\ pullRequest' = "error"
                           /\ failed' = FailedTests(failureCount)
             ELSE /\ runPc' = "end"
                  /\ failed' = FailedTests(failureCount)
                  /\ UNCHANGED pullRequest
  /\ UNCHANGED <<inputs, fileState, fileResult, isSuccessful, repairedFiles>>
  /\ UNCHANGED writtenTests
  /\ serviceUnchanged

\* ciPipeline.processRepairedFiles resolves.
PullRequestReturns ==
  /\ runPc = "pullRequest"
  /\ \E success \in BOOLEAN :
       pullRequest' = IF success THEN "created" ELSE "failed"
  /\ failed' = FailedTests(outputs.failureCount)
  /\ runPc' = "end"
  /\ UNCHANGED <<inputs, fileState, fileResult, isSuccessful, repairedFiles, outputs>>
  /\ UNCHANGED writtenTests
  /\ serviceUnchanged

\* no action run
RunIdle ==
  /\ inputs = [successCriteria |-> "ORIGINAL_SUCCESS", repairConfidenceThreshold |-> 4,
               maxWorkers |-> 1, createPrOnRepair |-> FALSE, testFiles |-> 0]
  /\ runPc = "idle"
  /\ fileState = <<>>
  /\ fileResult = <<>>
  /\ isSuccessful = <<>>
  /\ repairedFiles = {}
  /\ writtenTests = {}
  /\ outputs = NoOutputs
  /\ failed = Absent
  /\ pullRequest = "none"

\* run() is entered
RunStart ==
  /\ inputs \in ActionInputs
  /\ runPc = "start"
  /\ fileState = [f \in 1..inputs.testFiles |-> "unstarted"]
  /\ fileResult = [f \in 1..inputs.testFiles |-> Null]
  /\ isSuccessful = [f \in 1..inputs.testFiles |-> FALSE]
  /\ repairedFiles = {}
  /\ writtenTests = {}
  /\ outputs = NoOutputs
  /\ failed = Absent
  /\ pullRequest = "none"

RunNext ==
  \/ Run
  \/ InitializeReturns
  \/ InitializeThrows
  \/ ExecutionReturns
  \/ ExecutionThrows
  \/ AllSettled
  \/ PullRequestReturns

(***************************************************************************)
(* The managed-test comment: generateTestChimpComment and                  *)
(* addTestChimpComment.  A text is a sequence of tokens: "/*" and "*/"     *)
(* open and close a block comment, "managed." is the sentence              *)
(* 'This is a TestChimp Managed Test.', "managed" is the same words        *)
(* without the full stop, "$&" is that pair of characters, and any other   *)
(* token is text without any of these.                                     *)
(***************************************************************************)
ScriptTokens == {"/*", "*/", "managed.", "managed", "code"}
AdviceTokens == {"advice", "*/", "$&"}

TESTCHIMP_MANAGED_COMMENT == <<"/*", "managed.", "*/">>

generateTestChimpComment(repairAdvice) ==
  IF repairAdvice # <<>>
    THEN <<"/*", "managed.", "Repair Advice:">> \o repairAdvice \o <<"*/">>
    ELSE TESTCHIMP_MANAGED_COMMENT

\* script.includes('This is a TestChimp Managed Test')
IncludesManagedTest(text) ==
  \E k \in DOMAIN text : text[k] \in {"managed.", "managed"}

\* the positions at which commentRegex,
\* /\/\*[\s\S]*?This is a TestChimp Managed Test\.[\s\S]*?\*\//, can start
CommentRegexStarts(text) ==
  {b \in DOMAIN text :
     /\ text[b] = "/*"
     /\ \E p \in DOMAIN text : /\ p > b
                               /\ text[p] = "managed."
                               /\ \E q \in DOMAIN text : q > p /\ text[q] = "*/"}

SetMin(S) == CHOOSE x \in S : \A y \in S : x <= y

\* the end of the match that starts at b: both quantifiers are lazy
CommentRegexEnd(text, b) ==
  LET p == SetMin({k \in DOMAIN text : k > b /\ text[k] = "managed."})
  IN SetMin({q \in DOMAIN text : q > p /\ text[q] = "*/"})

\* the replacement string of String.prototype.replace: $& stands for the match
RECURSIVE ExpandReplacement(_, _)
ExpandReplacement(replacement, matched) ==
  IF replacement = <<>> THEN <<>>
  ELSE (IF Head(replacement) = "$&" THEN matched ELSE <<Head(replacement)>>)
         \o ExpandReplacement(Tail(replacement), matched)

\* script.replace(commentRegex, newComment): the first match only
ReplaceComment(text, newComment) ==
  IF CommentRegexStarts(text) = {} THEN text
  ELSE LET b == SetMin(CommentRegexStarts(text))
           e == CommentRegexEnd(text, b)
       IN SubSeq(text, 1, b - 1)
            \o ExpandReplacement(newComment, SubSeq(text, b, e))
            \o SubSeq(text, e + 1, Len(text))

addTestChimpComment(text, repairAdvice) ==
  IF IncludesManagedTest(text)
    THEN IF repairAdvice # <<>>
           THEN ReplaceComment(text, generateTestChimpComment(repairAdvice))
           ELSE text
    ELSE generateTestChimpComment(repairAdvice) \o text

\* no call of addTestChimpComment
CommentIdle ==
  commentCall = [pc |-> "idle", script |-> <<>>, repairAdvice |-> <<>>,
                 once |-> <<>>, twice |-> <<>>]

\* the texts of at most n tokens
TextsUpTo(tokens, n) == UNION {[1..k -> tokens] : k \in 0..n}

\* addTestChimpComment(script, repairAdvice) returns
AddTestChimpComment ==
  /\ commentCall.pc = "start"
  /\ commentCall' =
       [commentCall EXCEPT !.pc = "once",
          !.once = addTestChimpComment(commentCall.script, commentCall.repairAdvice)]
  /\ UNCHANGED <<execVars, poolVars, actionVars>>

\* addTestChimpComment(once, repairAdvice) returns
AddTestChimpCommentAgain ==
  /\ commentCall.pc = "once"
  /\ commentCall' =
       [commentCall EXCEPT !.pc = "twice",
          !.twice = addTestChimpComment(commentCall.once, commentCall.repairAdvice)]
  /\ UNCHANGED <<execVars, poolVars, actionVars>>

(***************************************************************************)
(* The specification of one executeScript call.                            *)
(***************************************************************************)
Requests ==
  {r \in [mode : {"RUN_EXACTLY", "RUN_WITH_AI_REPAIR"},
          deflake_run_count : 0..MaxDeflake,
          hasScript : BOOLEAN,
          script : Scripts \cup {<<>>}] : r.hasScript <=> r.script # <<>>}

\* no call has run yet
ExecFresh ==
  /\ openSessions = {}
  /\ scriptLog = <<>>
  /\ repairLog = <<>>
  /\ executedOk = {}
  /\ attempt = 0
  /\ lastError = Null
  /\ runExactlyResult = NoResponse
  /\ updatedSteps = <<>>
  /\ i = 0
  /\ step = 0
  /\ repairAttempt = 0
  /\ repairHistory = <<>>
  /\ recentRepairs = <<>>
  /\ repairAction = NoAction
  /\ nextId = 1
  /\ confidenceResponse = [confidence |-> NoNumber, advice |-> Absent]
  /\ response = NoResponse
  /\ parsedSteps = <<>>
  /\ parseOutcome = "none"
  /\ scriptRuns = 0
  /\ failure = [i |-> 0, steps |-> <<>>]
  /\ lastEvent = "none"
  /\ execCount = <<>>
  /\ advisorCalls = 0
  /\ halt = "none"

ExecInit ==
  /\ request \in Requests
  /\ pc = "start"
  /\ ExecFresh

PoolIdle ==
  /\ workers = <<>>
  /\ jobQueue = <<>>
  /\ busyWorkers = {}
  /\ running = {}
  /\ nextJob = 0
  /\ jobComplete = {}
  /\ requeues = <<>>
  /\ dispatchLog = <<>>
  /\ jobError = {}
  /\ workersCreated = 0
  /\ shutdownPc = "none"

Init == ExecInit /\ PoolIdle /\ RunIdle /\ CommentIdle

Next ==
  \/ ExecuteScript
  \/ LaunchReturns
  \/ LaunchThrows
  \/ ScriptReturns
  \/ ScriptThrows
  \/ CloseReturns
  \/ CloseThrows
  \/ CloseAfterError
  \/ PrepareReturns
  \/ PrepareThrows
  \/ StepReturns
  \/ StepThrows
  \/ AdvisorThrows
  \/ AdvisorStops
  \/ AdvisorSuggests
  \/ RepairCodeReturns
  \/ RepairCodeThrows
  \/ AssessReturns
  \/ AssessThrows
  \/ FinalScriptReturns
  \/ FinalScriptThrows
  \/ RepairCloseReturns
  \/ RepairCloseThrows

Spec == Init /\ [][Next]_vars

(***************************************************************************)
(* The specification of one ScenarioService.                               *)
(***************************************************************************)
ExecIdle ==
  /\ ExecInit
  /\ request = [mode |-> "RUN_EXACTLY", deflake_run_count |-> 0, hasScript |-> TRUE,
                script |-> ScriptWithoutMarkers]

PoolInit == ExecIdle /\ PoolIdle /\ RunIdle /\ CommentIdle

PoolNext ==
  \/ CreateWorker
  \/ ProcessScenario
  \/ JobReturns
  \/ JobThrows

SpecPool == PoolInit /\ [][PoolNext]_vars

(***************************************************************************)
(* The specification of one call of parseScriptIntoStepsFallback.          *)
(***************************************************************************)
LineKinds == {"marker", "exec", "plain", "importCall", "callComment", "other"}

\* the scripts of at most MaxLines lines; the text of a line is its number
SegmentScripts ==
  {<<>>} \cup UNION {{[k \in 1..n |-> Line(kinds[k], k)] : kinds \in [1..n -> LineKinds]} :
                     n \in 1..MaxLines}

\* parseScriptIntoStepsFallback(script) returns
Segment ==
  /\ pc = "segment"
  /\ parsedSteps' = parseScriptIntoStepsFallback(request.script)
  /\ pc' = "segmented"
  /\ UNCHANGED <<confidenceResponse, response, parseOutcome>>
  /\ loopUnchanged
  /\ prepareUnchanged
  /\ UNCHANGED <<openSessions, scriptLog>>
  /\ UNCHANGED repairLog
  /\ UNCHANGED executedOk

SegmentInit ==
  /\ request \in [mode : {"RUN_WITH_AI_REPAIR"}, deflake_run_count : {0},
                   hasScript : {TRUE}, script : SegmentScripts]
  /\ pc = "segment"
  /\ ExecFresh
  /\ PoolIdle
  /\ RunIdle
  /\ CommentIdle

SpecSegment == SegmentInit /\ [][Segment]_vars

\* one call of addTestChimpComment with a non-empty advice, and a second call
\* on its result
CommentInit ==
  /\ ExecIdle
  /\ PoolIdle
  /\ RunIdle
  /\ \E script \in TextsUpTo(ScriptTokens, MaxScriptTokens),
        advice \in TextsUpTo(AdviceTokens, MaxAdviceTokens) \ {<<>>} :
       commentCall = [pc |-> "start", script |-> script, repairAdvice |-> advice,
                      once |-> <<>>, twice |-> <<>>]

CommentNext ==
  \/ AddTestChimpComment
  \/ AddTestChimpCommentAgain

SpecComment == CommentInit /\ [][CommentNext]_vars

\* one ScenarioService that is shut down at some moment
ShutdownNext ==
  \/ CreateWorker
  \/ ProcessScenario
  \/ JobReturns
  \/ JobThrows
  \/ Shutdown
  \/ ShutdownCompletes

SpecShutdown == PoolInit /\ [][ShutdownNext]_vars

\* one run of the action
RunInit == RunStart /\ ExecIdle /\ PoolIdle /\ CommentIdle

SpecRun == RunInit /\ [][RunNext]_vars

\* initialize() runs to its end, and every processScenarioJob call terminates,
\* by returning or by throwing
SpecPoolLive ==
  /\ PoolInit
  /\ [][PoolNext]_vars
  /\ WF_vars(CreateWorker)
  /\ WF_vars(JobReturns \/ JobThrows)

(***************************************************************************)
(* Claims about the worker pool (checked under SpecPool).                  *)
(***************************************************************************)

\* C1: in a pool whose maxWorkers workers are initialized, the number of jobs
\* whose processScenarioJob call has started and not yet returned never
\* exceeds maxWorkers.
C1_InFlightAtMostMaxWorkers ==
  Len(workers) = MaxWorkers => Cardinality(running) <= MaxWorkers

\* C2: a worker is in busyWorkers for as long as a job dispatched to it is
\* running, and no worker runs two jobs at once (so the completion of a job on
\* one worker never frees, and never hands a job to, a worker that is still
\* running one).
C2_BusyWhileRunning ==
  /\ \A call \in running : call.worker \in busyWorkers
  /\ \A c1, c2 \in running : c1.worker = c2.worker => c1 = c2

(***************************************************************************)
(* Claims about the repair loop and runExactly (checked under Spec).       *)
(***************************************************************************)
InRepairLoop == pc \in {"step", "advise", "apply"}
AfterRepairLoop == pc \in {"assess", "final", "repairClose", "done"} /\ halt # "threw"
                   /\ runExactlyResult.run_status = "failed"
                   /\ response.error # <<"browser launch failed", 0>>

\* the response was built by runWithAIRepair after repairBrowser.close() returned
ClassifiedResponse == pc = "done" /\ response.updated_script # Absent

LastRepair == recentRepairs[Len(recentRepairs)]
JustRepaired(op) ==
  lastEvent = "repaired" /\ recentRepairs # <<>> /\ LastRepair.operation = op

\* the step that failed, and the steps that stood after it when it failed
FailedStep == At(failure.steps, failure.i)
LaterSteps == {failure.steps[k] : k \in (failure.i + 2)..Len(failure.steps)}

\* a step object is in the array with status pending and its code was never run
StillPending(s) ==
  /\ \E k \in DOMAIN updatedSteps : updatedSteps[k] = s
  /\ s.success = "undefined"
  /\ execCount[s.id] = 0

\* C3: the outer loop of repairStepsWithAI terminates, because every outer
\* iteration that does not halt the loop brings the cursor strictly closer to the
\* end of the sequence: after a step that succeeded, and after a repair that
\* succeeded, fewer steps lie at or after the cursor than when the iteration began.
C3_OuterLoopTerminates ==
  [][ /\ (pc = "step" /\ lastEvent' = "stepOk")
           => Len(updatedSteps') - i' < Len(updatedSteps) - i
      /\ (pc \in {"advise", "apply"} /\ lastEvent' = "repaired")
           => Len(updatedSteps') - i' < Len(failure.steps) - failure.i ]_vars

\* C4: in the result of a repair run, repair_status is success if every step of
\* the final sequence is marked success, partial if not but at least one repair
\* action (Modify, Insert or Remove) was applied successfully, failed otherwise;
\* in particular it is failed when the loop halted and no repair ever succeeded.
C4_RepairStatus ==
  ClassifiedResponse =>
    response.repair_status =
      IF AllStepsSuccessful(updatedSteps) THEN "success"
      ELSE IF recentRepairs # <<>> THEN "partial"
      ELSE "failed"

\* C5: right after an Insert repair succeeded for the step that failed under
\* cursor i (on any attempt), the sequence is one step longer than at the
\* failure, the cursor is i+1 and the step that failed is the step under it.
C5_InsertShift ==
  JustRepaired("INSERT") =>
    /\ Len(updatedSteps) = Len(failure.steps) + 1
    /\ i = failure.i + 1
    /\ At(updatedSteps, i).id = FailedStep.id

\* C6: right after a Remove repair succeeded for the step that failed under
\* cursor i (on any attempt), the sequence is one step shorter than at the
\* failure, the step that failed is gone, the cursor is still i and holds the
\* not yet executed step that stood at i+1.
C6_RemoveShift ==
  JustRepaired("REMOVE") =>
    /\ Len(updatedSteps) = Len(failure.steps) - 1
    /\ FailedStep.id \notin StepIds(updatedSteps)
    /\ i = failure.i
    /\ failure.i + 1 < Len(failure.steps) =>
         /\ At(updatedSteps, i) = At(failure.steps, failure.i + 1)
         /\ StillPending(At(updatedSteps, i))

\* C7: when all 3 permitted repair attempts for a failing step have failed, the
\* outer loop has halted on that step: the cursor has not moved, nothing is
\* executed any more, and every step that stands after the failing step is
\* returned still pending, its code never executed.
C7_ExhaustionHalts ==
  halt = "exhausted" =>
    /\ Len(repairHistory) = 3
    /\ ~InRepairLoop
    /\ lastEvent = "attemptFailed"
    /\ i = failure.i
    /\ \A s \in LaterSteps : StillPending(s)

\* C8: when the advisor answers shouldContinue = false on attempt n, it was
\* asked n times for this step and is not asked again, only the n-1 earlier
\* actions were applied, the step stays failed, the loop has halted and every
\* later step is returned still pending, its code never executed.
C8_StopHalts ==
  halt = "stopped" =>
    /\ advisorCalls = repairAttempt
    /\ Len(repairHistory) = repairAttempt - 1
    /\ ~InRepairLoop
    /\ lastEvent = "stopped"
    /\ i = failure.i
    /\ At(updatedSteps, i).success = "false"
    /\ \A k \in DOMAIN updatedSteps :
         updatedSteps[k].id = FailedStep.id => updatedSteps[k].success = "false"
    /\ \A s \in LaterSteps : StillPending(s)

\* the repair loop ran to the end of the sequence, exactly one step failed its
\* execution, and the advisor's first suggestion for it, a Modify, succeeded
C9_Scenario ==
  /\ pc \in {"assess", "final", "repairClose", "done"}
  /\ halt = "none"
  /\ Len(recentRepairs) = 1
  /\ recentRepairs[1].operation = "MODIFY"
  /\ advisorCalls = 1

C11_SegmentationFallback ==
  parseOutcome \in {"llmError", "notJson", "badFormat"} =>
    parsedSteps = parseScriptIntoStepsFallback(request.script)

\* C12: a job whose processing throws is put back at the front of the queue
\* exactly once: no job is ever re-queued a second time.
C12_RequeuedOnce ==
  \A job \in DOMAIN requeues : requeues[job] <= 1

\* the position of a job in the order of first dispatches (0: never dispatched)
FirstDispatch(job) ==
  IF \E k \in DOMAIN dispatchLog : dispatchLog[k] = job
    THEN CHOOSE k \in DOMAIN dispatchLog : dispatchLog[k] = job
    ELSE 0

\* C13: jobs are dispatched for the first time in submission order: when job B,
\* submitted after job A, has been dispatched, A was dispatched before it.
C13_FifoDispatch ==
  \A jobA, jobB \in 1..nextJob :
    (jobA < jobB /\ FirstDispatch(jobB) # 0) =>
      (FirstDispatch(jobA) # 0 /\ FirstDispatch(jobA) < FirstDispatch(jobB))

\* jobs 3 and 4 waited in the queue together, behind job 1 put back in front of
\* them, and all have been dispatched
C13_Witness ==
  /\ nextJob = 4
  /\ requeues[1] = 1
  /\ requeues[3] = 0
  /\ requeues[4] = 0
  /\ FirstDispatch(4) # 0
  /\ Len(workers) = 1

\* C14: every job submitted through processScenario is eventually dispatched to
\* a worker and a jobComplete event carrying its id is eventually emitted.
C14_EveryJobCompletes ==
  \A job \in 1..MaxJobs :
    (nextJob >= job) ~> (FirstDispatch(job) # 0 /\ job \in jobComplete)

\* runWithAIRepair has returned and at least one step of the returned sequence
\* has status success
C15_SomeStepSucceeded ==
  /\ pc = "done"
  /\ request.mode = "RUN_WITH_AI_REPAIR"
  /\ HasSuccessfulRepairs(updatedSteps)

C16_FailureExplained ==
  (pc = "done" /\ response.run_status # "success") =>
    \/ response.error[1] \notin {Absent, ""}
    \/ response.repair_advice \notin {Absent, ""}

\* C17: when the request carries no script content the call fails at once: no
\* browser is opened, no attempt, deflake run or repair is started, and the
\* caller receives a failed result with the error.
C17_NoScriptFailsFast ==
  ~request.hasScript =>
    /\ pc \in {"start", "done"}
    /\ attempt = 0
    /\ scriptRuns = 0
    /\ runExactlyResult = NoResponse
    /\ parseOutcome = "none"
    /\ updatedSteps = <<>>
    /\ advisorCalls = 0
    /\ pc = "done" =>
         /\ response.run_status = "failed"
         /\ response.repair_status = Absent
         /\ response.error = <<"Script content is required", 0>>

C17_Witness ==
  /\ ~request.hasScript
  /\ request.mode = "RUN_WITH_AI_REPAIR"
  /\ request.deflake_run_count = 1
  /\ pc = "done"
  /\ response.run_status = "failed"

\* the success of a test file as the success criteria define it
MeetsSuccessCriteria(f) ==
  /\ fileState[f] = "settled"
  /\ \/ fileResult[f].run_status = "success"
     \/ /\ inputs.successCriteria = "REPAIR_SUCCESS_WITH_CONFIDENCE"
        /\ fileResult[f].repair_status = "success"
        /\ fileResult[f].repair_confidence >= inputs.repairConfidenceThreshold

\* C18: a test file counts as successful iff its run_status is success, or the
\* criteria is REPAIR_SUCCESS_WITH_CONFIDENCE and its repair_status is success
\* with repair_confidence at least the threshold; under ORIGINAL_SUCCESS a
\* repaired test never counts as successful; the status output is 'failed' iff
\* at least one test file is unsuccessful.
C18_SuccessCriteria ==
  /\ \A f \in Settled :
       /\ isSuccessful[f] <=> MeetsSuccessCriteria(f)
       /\ (/\ inputs.successCriteria = "ORIGINAL_SUCCESS"
           /\ fileState[f] = "settled"
           /\ fileResult[f].run_status # "success") => ~isSuccessful[f]
  /\ outputs.status # Absent =>
       /\ Settled = Files
       /\ outputs.successCount = Cardinality({f \in Files : MeetsSuccessCriteria(f)})
       /\ outputs.failureCount = Cardinality({f \in Files : ~MeetsSuccessCriteria(f)})
       /\ outputs.status = "failed" <=> \E f \in Files : ~MeetsSuccessCriteria(f)

C18_Witness ==
  /\ runPc = "end"
  /\ inputs.successCriteria = "REPAIR_SUCCESS_WITH_CONFIDENCE"
  /\ inputs.repairConfidenceThreshold = 4
  /\ Len(fileState) = 2
  /\ fileState = <<"settled", "settled">>
  /\ fileResult[1].repair_status = "success" /\ fileResult[1].repair_confidence = 4
  /\ fileResult[2].repair_status = "success" /\ fileResult[2].repair_confidence = 3
  /\ isSuccessful[1] /\ ~isSuccessful[2]
  /\ outputs.status = "failed"

\* C19: during an action run with max-workers = M at most M test-file
\* executions are in progress at the same time.
C19_AtMostMaxWorkersInProgress ==
  Cardinality({f \in Files : fileState[f] = "pending"}) <= inputs.maxWorkers

\* C20: a pull request is created only when create-pr-on-repair is enabled and
\* at least one file was repaired.
C20_PullRequestOnlyWhenEnabled ==
  pullRequest = "created" => (inputs.createPrOnRepair /\ repairedFiles # {})

(***************************************************************************)
(* Claims about the fallback segmenter (checked under SpecSegment).        *)
(***************************************************************************)
Markers(script) == {m \in DOMAIN script : script[m].kind = "marker"}

\* the lines that follow marker m up to the next marker or the end of the script
LinesOf(script, m) ==
  {k \in DOMAIN script : k > m /\ \A n \in Markers(script) : n > m => k < n}

FollowedByExecutable(script, m) == \E k \in LinesOf(script, m) : Executable(script[k])

\* C21: for a script with at least one marker followed by at least one line of
\* executable code, parseScriptIntoStepsFallback returns a non-empty list whose
\* steps are in the order of their markers; a marker followed by no executable
\* code contributes no step.
C21_FallbackSegmentation ==
  pc = "segmented" =>
    LET script == request.script
        described == {parsedSteps[k].description : k \in DOMAIN parsedSteps}
    IN /\ (\E m \in Markers(script) : FollowedByExecutable(script, m))
            => parsedSteps # <<>>
       /\ \A a, b \in DOMAIN parsedSteps :
            a < b => parsedSteps[a].description < parsedSteps[b].description
       /\ described \subseteq Markers(script)
       /\ \A m \in Markers(script) :
            ~FollowedByExecutable(script, m) => m \notin described

\* the lines that follow marker m, in their order
CodeOf(script, m) ==
  [j \in 1..Cardinality(LinesOf(script, m)) |-> script[m + j]]

\* C39: the fallback segmenter loses no code: every non-blank line between a
\* '// Step ' marker and the next marker (or the end of the test body) appears,
\* in order, in the code of the step opened by that marker.
C39_NoCodeLost ==
  pc = "segmented" =>
    \A m \in Markers(request.script) :
      LinesOf(request.script, m) # {} =>
        \E k \in DOMAIN parsedSteps :
          /\ parsedSteps[k].description = m
          /\ parsedSteps[k].code = CodeOf(request.script, m)

(***************************************************************************)
(* More claims about one executeScript call (checked under Spec).          *)
(***************************************************************************)

\* C22: when the advisor's repair-suggestion call throws during attempt n, the
\* attempt is counted as a failed repair attempt (the history holds n attempts)
\* and the inner loop goes on with attempt n+1 or, after attempt 3, is
\* exhausted; the call does not end the run by an exception, and the result
\* still reports the steps already marked success and the repairs applied.
C22_AdvisorFailureAbsorbed ==
  lastEvent = "threw" =>
    /\ Len(repairHistory) = advisorCalls
    /\ halt # "threw"
    /\ IF advisorCalls < maxTries THEN pc = "advise" ELSE halt = "exhausted"
    /\ (pc = "done" /\ HasSuccessfulRepairs(updatedSteps)) =>
         /\ response.updated_script # Absent
         /\ response.repair_status \in {"success", "partial"}

\* the steps of a sequence in order, each known by its identity (its
\* description and code)
IdSeq(steps) == [k \in DOMAIN steps |-> steps[k].id]

\* C23: a repair attempt whose action fails to apply (its code throws or the
\* action is invalid) leaves the step sequence as it was before the attempt:
\* after every failed attempt the sequence still holds the steps it held when
\* the step failed, with the same code, in the same order.
C23_FailedAttemptLeavesSteps ==
  lastEvent = "attemptFailed" => IdSeq(updatedSteps) = IdSeq(failure.steps)

\* the response runWithAIRepair builds when repairBrowser.close() returns
CompletedRepair ==
  IF HasSuccessfulRepairs(updatedSteps)
    THEN RepairedResponse(runExactlyResult, AllStepsSuccessful(updatedSteps),
                          confidenceResponse)
    ELSE NotRepairedResponse(runExactlyResult)

\* C24: a failure of browser.close() never changes the reported outcome: when
\* the last error of runExactly is the close error of an attempt (the script of
\* that attempt ran to its end), runExactly reports run_status = success; and
\* when the close of the repair browser throws, the response still carries the
\* repair_status, repair_confidence, repair_advice and updated_script of the
\* completed repair.
C24_CloseFailureIgnored ==
  /\ (runExactlyResult # NoResponse /\ \E k \in 1..attempt : lastError = CloseError(k))
       => runExactlyResult.run_status = "success"
  /\ (pc = "done" /\ response.error = <<"browser close failed", 0>>) =>
       /\ response.repair_status = CompletedRepair.repair_status
       /\ response.repair_confidence = CompletedRepair.repair_confidence
       /\ response.repair_advice = CompletedRepair.repair_advice
       /\ response.updated_script = CompletedRepair.updated_script

\* C25: the browser session opened for the repair phase is closed on every
\* path before runWithAIRepair returns its result, the paths on which an
\* advisor call throws included.
C25_RepairSessionClosed ==
  pc = "done" => RepairSession \notin openSessions

\* the failure history the advisor is given by the call that is in flight
GivenFailureHistory == buildFailureHistory(repairHistory)

\* C26: for each failure of a step the advisor is asked for at most 3
\* suggestions; when an applied action's code throws, the attempt (number,
\* action, error) is appended to the failure history and the loop goes on to
\* the next attempt while one is left; the history given to the advisor on
\* attempt n lists exactly the n-1 earlier failed attempts of the current
\* failure in order, and it starts empty for every newly failing step.
C26_FailureHistory ==
  /\ advisorCalls <= maxTries
  /\ pc = "advise" =>
       /\ advisorCalls = repairAttempt - 1
       /\ Len(GivenFailureHistory) = repairAttempt - 1
       /\ \A k \in DOMAIN GivenFailureHistory :
            /\ GivenFailureHistory[k][1] = k
            /\ GivenFailureHistory[k][3] = "repairError"
  /\ lastEvent = "stepFailed" => (pc = "advise" /\ repairAttempt = 1 /\ GivenFailureHistory = <<>>)
  /\ lastEvent = "attemptFailed" =>
       /\ repairHistory # <<>>
       /\ repairHistory[Len(repairHistory)] =
            [attempt |-> repairAttempt - 1, operation |-> repairAction.operation,
             error |-> "repairError"]
       /\ repairAttempt - 1 < maxTries => pc = "advise"

C26_Witness ==
  /\ pc = "advise"
  /\ lastEvent = "attemptFailed"
  /\ repairAttempt = 3
  /\ repairAction.hasNewStep
  /\ execCount[repairAction.newStep] = 1
  /\ GivenFailureHistory = << <<1, "INSERT", "repairError">>, <<2, "MODIFY", "repairError">> >>

\* the advisor's suggestion has just been turned into repairAction' and applied
\* to updatedSteps by applyRepairActionInContext
ActionApplied ==
  /\ pc = "advise"
  /\ advisorCalls' = advisorCalls + 1
  /\ lastEvent' \in {"applying", "repaired", "attemptFailed"}

\* C27: every repair action is applied at a valid position of the step
\* sequence as it is at the moment of application: Modify and Remove target an
\* existing step, Insert splices at a position between 0 and the length.
C27_ValidIndices ==
  [][ ActionApplied =>
        /\ repairAction'.operation \in {"MODIFY", "REMOVE"} =>
             (0 <= repairAction'.stepIndex /\ repairAction'.stepIndex < Len(updatedSteps))
        /\ repairAction'.operation = "INSERT" =>
             /\ repairAction'.hasInsertAfterIndex
             /\ 0 <= repairAction'.insertAfterIndex + 1
             /\ repairAction'.insertAfterIndex + 1 <= Len(updatedSteps) ]_vars

C27_Witness ==
  /\ pc = "apply"
  /\ lastEvent = "applying"
  /\ repairAction.operation = "INSERT"
  /\ repairAction.insertAfterIndex = -1
  /\ Len(updatedSteps) = 3
  /\ updatedSteps[1].id = repairAction.newStep

\* the repair phase of runWithAIRepair has started
RepairPhaseStarted ==
  \/ pc \in {"prepare", "step", "advise", "apply", "assess", "final", "repairClose"}
  \/ parseOutcome # "none"
  \/ response.repair_status # Absent
  \/ \E k \in DOMAIN scriptLog : scriptLog[k].callee = "parseScriptIntoSteps"

\* C28: in RUN_WITH_AI_REPAIR mode the repair phase starts only after runExactly
\* has consumed all deflake_run_count + 1 attempts and failed, and it segments
\* the script content runExactly ran; when a runExactly attempt succeeds its
\* result is returned and no segmentation or advisor call is ever made.
C28_RepairAfterRunExactly ==
  LET d == request.deflake_run_count
  IN /\ RepairPhaseStarted =>
          /\ request.mode = "RUN_WITH_AI_REPAIR"
          /\ runExactlyResult.run_status = "failed"
          /\ scriptRuns = d + 1
          /\ Len(scriptLog) \in {d + 1, d + 2}
          /\ \A k \in DOMAIN scriptLog :
               /\ scriptLog[k].callee =
                    IF k <= d + 1 THEN "executeScriptContent" ELSE "parseScriptIntoSteps"
               /\ scriptLog[k].script = scriptLog[1].script
     /\ runExactlyResult.run_status = "success" =>
          /\ ~RepairPhaseStarted
          /\ pc = "done"
          /\ response = runExactlyResult
          /\ advisorCalls = 0
          /\ updatedSteps = <<>>
          /\ RepairSession \notin openSessions

C28_Witness ==
  /\ pc = "done"
  /\ request.deflake_run_count = 1
  /\ response.repair_status = "success"
  /\ Len(scriptLog) = 3
  /\ scriptLog[3] = ScriptUse("parseScriptIntoSteps", ScriptWithMarkers)
  /\ advisorCalls > 0

\* the browsers of runExactly that are open
OpenRunSessions == {browser \in openSessions : browser[1] = "runExactly"}

\* C29: in runExactly each attempt opens its own browser session, and that
\* session is closed before the next attempt opens one and before runExactly
\* returns, whether the attempt succeeded or failed; at most one runExactly
\* session is open at any time.
C29_OneRunSession ==
  /\ Cardinality(OpenRunSessions) <= 1
  /\ pc \in {"script", "close", "closeAfterError"} => OpenRunSessions \subseteq {RunSession(attempt)}
  /\ pc \in {"script", "close"} => OpenRunSessions = {RunSession(attempt)}
  /\ pc = "launch" => OpenRunSessions = {}
  /\ runExactlyResult # NoResponse => OpenRunSessions = {}
  /\ pc = "done" => OpenRunSessions = {}

C29_Witness ==
  /\ pc = "script"
  /\ attempt = 2
  /\ lastError = ScriptError(1)
  /\ openSessions = {RunSession(2)}

(***************************************************************************)
(* More claims about the worker pool (checked under SpecPool).             *)
(***************************************************************************)

\* the processScenarioJob call of `job` has just thrown (its re-queue count rose)
JustThrew(job) == requeues'[job] > requeues[job]

\* C30: when a worker's processScenarioJob throws, a jobError event carrying
\* the job's id is emitted, the worker leaves the busy set and is available
\* again, and the re-queued job is the next job dispatched, ahead of every
\* never-dispatched job of the queue (which stay queued in their order).
C30_ThrownJobServedNext ==
  [][ \A job \in DOMAIN requeues :
        JustThrew(job) =>
          \E call \in running, again \in running' :
            /\ call.job = job
            /\ job \in jobError'
            /\ again.job = job
            /\ running' = (running \ {call}) \cup {again}
            /\ jobQueue' = jobQueue
            /\ (call.worker \notin busyWorkers' \/ again.worker = call.worker) ]_vars

C30_Witness ==
  /\ nextJob = 4
  /\ 2 \in jobError
  /\ requeues[2] = 1
  /\ \E call \in running : call.job = 2
  /\ jobQueue = <<3, 4>>
  /\ FirstDispatch(3) = 0
  /\ Len(workers) = 2

(***************************************************************************)
(* Claims about the shutdown of the pool (checked under SpecShutdown).     *)
(***************************************************************************)

\* C31: after shutdown() has completed the pool accepts no further submission:
\* a later processScenario call neither adds a job to the queue nor causes a
\* job to be dispatched.
C31_NoSubmissionAfterShutdown ==
  [][ (shutdownPc = "done" /\ nextJob' # nextJob) =>
        (jobQueue' = jobQueue /\ running' = running) ]_vars

\* C32: a pool constructed with maxWorkers = M owns exactly M initialized
\* workers as soon as it is constructed, before any job can be submitted (so
\* whenever a job was submitted it owns M workers), and it never owns more
\* than M workers.  (Checked under SpecPool.)
C32_WorkersOwned ==
  /\ Len(workers) <= MaxWorkers
  /\ nextJob > 0 => Len(workers) = MaxWorkers

(***************************************************************************)
(* More claims about the repair loop (checked under Spec).                 *)
(***************************************************************************)
LastOf(seq, n) == SubSeq(seq, Len(seq) - n + 1, Len(seq))

\* C33: the recent-repairs buffer never holds more than 3 entries; after n
\* successfully applied repairs it holds exactly the most recent min(3, n) of
\* them in the order they were applied; a failed repair attempt adds no entry.
C33_RecentRepairs ==
  [][ /\ Len(recentRepairs') <= 3
      /\ recentRepairs' = LastOf(repairLog', Min(3, Len(repairLog')))
      /\ lastEvent' = "repaired" =>
           (Len(repairLog') = Len(repairLog) + 1 \/ pc \notin {"advise", "apply"})
      /\ (pc \in {"advise", "apply"} /\ lastEvent' = "attemptFailed") =>
           (recentRepairs' = recentRepairs /\ repairLog' = repairLog) ]_vars

C33_Witness ==
  /\ Len(repairLog) = 4
  /\ Len(recentRepairs) = 3
  /\ recentRepairs = <<repairLog[2], repairLog[3], repairLog[4]>>
  /\ repairLog[1] # repairLog[4]
  /\ Len(repairHistory) > 0

\* repairStepsWithAI has returned updatedSteps to runWithAIRepair
LoopReturned ==
  \/ pc \in {"assess", "final", "repairClose"}
  \/ pc = "done" /\ (confidenceResponse \in ConfidenceResponses \/ ClassifiedResponse)

\* C34: when repairStepsWithAI returns, every step of the returned sequence
\* that is marked success holds code that executeStepCode ran successfully in
\* the repair session of this run, and the step on which the loop halted, if
\* it halted, is not marked success.
C34_SuccessMeansExecuted ==
  LoopReturned =>
    /\ \A k \in DOMAIN updatedSteps :
         updatedSteps[k].success = "true" => updatedSteps[k].id \in executedOk
    /\ halt \in {"exhausted", "stopped"} =>
         (i < Len(updatedSteps) /\ At(updatedSteps, i).success # "true")

\* C35: in every ScriptExecutionResponse repair_status is present only when
\* run_status is failed: a response with run_status=success carries no
\* repair_status, repair_confidence, repair_advice or updated_script, and
\* every response produced after the repair phase was entered has
\* run_status=failed.
C35_RepairFieldsOnlyOnFailure ==
  pc = "done" =>
    /\ response.repair_status # Absent => response.run_status = "failed"
    /\ response.run_status = "success" =>
         /\ response.repair_status = Absent
         /\ response.repair_confidence = NoNumber
         /\ response.repair_advice = Absent
         /\ response.updated_script = Absent
    /\ RepairPhaseStarted => response.run_status = "failed"

C35_Witness ==
  /\ pc = "done"
  /\ RepairPhaseStarted
  /\ response.run_status = "failed"
  /\ response.repair_status = "success"
  /\ response.updated_script = "repaired"
  /\ response.repair_confidence # NoNumber

\* C36: a repaired script is handed to writeRepairedTest and queued for the
\* pull request only when the result's repair_status is success; a result whose
\* repair_status is partial or failed never causes a file to be written or to
\* be included in the pull request.
C36_OnlySuccessfulRepairsWritten ==
  /\ \A w \in writtenTests : w.repair_status = "success"
  /\ \A f \in repairedFiles :
       fileState[f] = "settled" /\ fileResult[f].repair_status = "success"
  /\ \A f \in Files :
       (fileState[f] = "settled" /\ fileResult[f].repair_status \in {"partial", "failed"}) =>
         /\ f \notin repairedFiles
         /\ \A w \in writtenTests : w.file # f

C36_Witness ==
  /\ pullRequest = "created"
  /\ Len(fileState) = 2
  /\ fileState[1] = "settled" /\ fileResult[1].repair_status = "success"
  /\ fileState[2] = "settled" /\ fileResult[2].repair_status = "partial"
  /\ repairedFiles = {1}
  /\ writtenTests = {[file |-> 1, repair_status |-> "success"]}

\* applyRepairActionInContext is called with an INSERT and splices the new step
\* in, at the cursor
InsertSpliced ==
  pc = "advise" /\ pc' = "apply" /\ repairAction'.operation = "INSERT"

\* the attempt that inserted a step ends, with the new step's code run or thrown
InsertEnds ==
  pc = "apply" /\ repairAction.operation = "INSERT" /\ pc' # pc

\* the steps of `before` are found in `after` with their fields, those formerly
\* at index p or more one slot to the right
KeptShifted(before, after, p) ==
  /\ Len(after) = Len(before) + 1
  /\ \A k \in DOMAIN before : after[IF k <= p THEN k ELSE k + 1] = before[k]

\* every step but the one at index p is as it was
OthersUntouched(before, after, p) ==
  /\ Len(after) = Len(before)
  /\ \A k \in DOMAIN before : k # p + 1 => after[k] = before[k]

RECURSIVE AnnotationBlocks(_, _)
AnnotationBlocks(text, from) ==
  LET opens  == {k \in DOMAIN text : k >= from /\ text[k] = "/*"}
  IN IF opens = {} THEN <<>>
     ELSE LET b      == SetMin(opens)
              closes == {k \in DOMAIN text : k > b /\ text[k] = "*/"}
          IN IF closes = {} THEN <<>>
             ELSE LET e     == SetMin(closes)
                      block == SubSeq(text, b, e)
                  IN (IF IncludesManagedTest(block) THEN <<block>> ELSE <<>>)
                       \o AnnotationBlocks(text, e + 1)

\* C38: for any script and any non-empty advice, addTestChimpComment(script,
\* advice) returns a script that contains the managed-test annotation block
\* exactly once, and that block carries the given advice; a script that already
\* has an annotation block has it updated in place, so that applying the
\* function twice with the same advice gives the same result as applying it once.
C38_AnnotationOnceAndIdempotent ==
  /\ commentCall.pc \in {"once", "twice"} =>
       AnnotationBlocks(commentCall.once, 1)
         = <<generateTestChimpComment(commentCall.repairAdvice)>>
  /\ commentCall.pc = "twice" => commentCall.twice = commentCall.once

====
